---- MODULE Spec2Model ----
(***************************************************************************)
(* A model of SparkSubmitHook (providers/apache/spark/hooks/               *)
(* spark_submit.py): connection resolution at construction, submit() with  *)
(* its log processing and driver-status poll loop, and on_kill().          *)
(*                                                                         *)
(* Strings the code searches with `in` are sequences of                    *)
(* segments: "spark://host:6066" is <<"spark://", "host", ":", "6066">>,   *)
(* and `"yarn" in master` asks for a segment equal to "yarn".              *)
(* Python's None is the string "None"; a key missing from the connection   *)
(* extras is "Absent".                                                     *)
(*                                                                         *)
(* Specifications: Spec (construction, submit, on_kill), SpecResolve       *)
(* (construction over many connections), SpecCommand (the command line     *)
(* and its logged form), SpecMask (_mask_cmd on token lists and on its own *)
(* output), SpecStatusLog (_process_spark_status_log on one response) and  *)
(* SpecKeytab (two hooks materializing one connection's keytab),           *)
(* SpecResubmit (submit() called again on one hook) and SpecTracking (the  *)
(* poll loop under fairness).                                              *)
(***************************************************************************)
EXTENDS Integers, Sequences, FiniteSets, TLC

VARIABLES
    args,                       \* the constructor's arguments (never reassigned)
    connStore,                  \* the connection record behind conn_id (found or not)
    spark_binary,               \* self.spark_binary
    connection,                 \* self._connection
    env,                        \* self._env
    submit_sp,                  \* self._submit_sp: "None", "alive", "killed", "exited"
    yarn_application_id,        \* self._yarn_application_id
    kubernetes_driver_pod,      \* self._kubernetes_driver_pod
    kubernetes_application_id,  \* self._kubernetes_application_id
    driver_id,                  \* self._driver_id
    driver_status,              \* self._driver_status
    spark_exit_code,            \* self._spark_exit_code
    missed_job_status_reports,  \* local of _start_driver_status_tracking
    pc,                         \* where the hook's caller is: new, failed, ready,
                                \* streaming, tracking, returned, raised
    err,                        \* what submit() or the constructor raised
    errStatus,                  \* the driver status the raised error's message carries
    returncode,                 \* submit()'s local returncode: "None" until wait() returns
    logLines,                   \* lines of submission output consumed so far
    line,                       \* _process_spark_submit_log's loop variable: the line in hand
    nonzeroExitLogged,          \* whether a consumed line reported an exit code other than 0
    okChecks,                   \* status-check commands that exited zero so far
    failedChecks,               \* status-check commands that exited non-zero so far
    onKillCalls,                \* on_kill() invocations so far
    killEffects,                \* what the last on_kill() issued
    killOutcome,                \* how the last on_kill() ended: none, returned, raised
    spark_submit_cmd,           \* submit()'s local: the token list the builder returned
    popen_args,                 \* the token list subprocess.Popen was called with
    cmd_log,                    \* the display string the builder logged
    connection_cmd,             \* _mask_cmd's argument (masking specification)
    connection_cmd_masked,      \* _mask_cmd's return value
    display,                    \* the display form an earlier _mask_cmd call returned
    files,                      \* the temporary directory: path -> content (keytab
                                \* specification)
    keytab_call,                \* per hook, its call of
                                \* _create_keytab_path_from_base64_keytab: position,
                                \* locals and what it did to the file system
    itr                         \* _process_spark_status_log's argument: the lines of one
                                \* status response (status-log specification)

vars == <<args, connStore, spark_binary, connection, env, submit_sp,
          yarn_application_id, kubernetes_driver_pod, kubernetes_application_id,
          driver_id, driver_status, spark_exit_code, missed_job_status_reports,
          pc, err, errStatus, returncode, logLines, line, nonzeroExitLogged,
          okChecks, failedChecks, onKillCalls, killEffects, killOutcome,
          spark_submit_cmd, popen_args, cmd_log,
          connection_cmd, connection_cmd_masked, display, files, keytab_call, itr>>

None == "None"
Absent == "Absent"

\* Bounds of the model.
MaxStatusLines == 2
MaxMaskPairs == 2
MaxLogLines == 2
MaxOkPolls == 2
MaxKills == 2

\* Python truthiness of an optional string.
Truthy(x) == x # None /\ x # ""

\* `sub in s` for a segmented string.
Contains(s, sub) == \E i \in 1..Len(s) : s[i] = sub

DEFAULT_SPARK_BINARY == "spark-submit"
ALLOWED_SPARK_BINARIES == {DEFAULT_SPARK_BINARY, "spark2-submit", "spark3-submit"}

\* extra.get(key)
ExtraGet(extra, key) == IF extra[key] = Absent THEN None ELSE extra[key]

\* extra.get(key, default)
ExtraGetDefault(extra, key, default) == IF extra[key] = Absent THEN default ELSE extra[key]

\* f"{conn.host}:{conn.port}" if conn.port else conn.host
MasterOf(conn) == IF conn.port # None THEN conn.host \o <<":", conn.port>> ELSE conn.host

\* temp_dir_path / f"airflow_keytab-{principal or _uuid}"
KeytabPath(principal) ==
    CASE principal = "p_arg" -> "/tmp/airflow_keytab-p_arg"
      [] principal = "p_extra" -> "/tmp/airflow_keytab-p_extra"
      [] OTHER -> "/tmp/airflow_keytab-<uuid4>"

\* The constructor's arguments that only the command line uses, at their
\* defaults; strings are segment sequences and <<>> stands for None.
NoOptions ==
    [conf |-> <<>>, files |-> <<>>, py_files |-> <<>>, archives |-> <<>>,
     driver_class_path |-> <<>>, jars |-> <<>>, java_class |-> <<>>, packages |-> <<>>,
     exclude_packages |-> <<>>, repositories |-> <<>>, total_executor_cores |-> <<>>,
     executor_cores |-> <<>>, executor_memory |-> <<>>, driver_memory |-> <<>>,
     proxy_user |-> <<>>, name |-> <<"default-name">>, num_executors |-> <<>>,
     application_args |-> <<>>, verbose |-> FALSE, properties_file |-> <<>>]

\* The constructor arguments and connection records the resolver is checked on.
\* The model covers hooks built with use_krb5ccache = False (the default).
ExplicitBinaries == {None, "spark2-submit", "custom-submit"}
ExtraBinaries == {Absent, None, "spark3-submit", "evil-submit"}
Hosts == { <<"yarn">>, <<"k8s", "://", "https://kube">>, <<"spark://", "host">>,
           <<"spark://", "yarn", "-gw">>, <<"local">> }
Ports == {None, "6066"}

ResolveArgs ==
    {a @@ NoOptions : a \in
    [spark_binary : ExplicitBinaries, yarn_queue : {None, "q_arg"},
     deploy_mode : {None, "cluster"}, principal : {None, "p_arg"},
     keytab : {None, "/kt_arg"}, env_vars : {None}, conf_namespace : {None, "ns_conf"}]}

ResolveExtras ==
    [queue : {Absent, "q_extra"}, deploy_mode : {Absent, "client"},
     spark_binary : ExtraBinaries, spark_home : {Absent, "/opt/spark"},
     namespace : {Absent, "ns_extra"}, principal : {Absent, "p_extra"},
     keytab : {Absent, "b64"}]

NoExtras ==
    [queue |-> Absent, deploy_mode |-> Absent, spark_binary |-> Absent, spark_home |-> Absent,
     namespace |-> Absent, principal |-> Absent, keytab |-> Absent]

\* get_connection(conn_id) raises AirflowException for this one.
NotFound == [found |-> FALSE, host |-> <<>>, port |-> None, extra |-> NoExtras]

ResolveConns ==
    {NotFound} \cup [found : {TRUE}, host : {<<"yarn">>, <<"k8s", "://", "https://kube">>},
                     port : {None}, extra : ResolveExtras]

\* The configurations submit() and on_kill() are checked on.
RunArgs ==
    {a @@ NoOptions : a \in
    {a \in [spark_binary : {None}, yarn_queue : {None}, deploy_mode : {None, "cluster"},
            principal : {None, "p_arg"}, keytab : {None, "/kt_arg"},
            env_vars : {None, "ENV"}, conf_namespace : {None}] :
        (a.principal = None) <=> (a.keytab = None)}}

RunConns ==
    {NotFound} \cup
    {c \in [found : {TRUE}, host : Hosts, port : Ports, extra : {NoExtras}] :
        (c.port # None) <=> (c.host = <<"spark://", "host">>)}

BinaryNeverRejected(explicit, sb) == FALSE

\* The test that makes _resolve_connection raise RuntimeError for the binary:
\* made only when the constructor gave none, on the value sb of the extras.
BinaryRejected(explicit, sb) ==
    ~Truthy(explicit) /\ sb # None /\ sb \notin ALLOWED_SPARK_BINARIES

DefaultConnDataLocalMaster(a) ==
    [master |-> <<"local">>, queue |-> None, deploy_mode |-> None,
     spark_binary |-> IF Truthy(a.spark_binary) THEN a.spark_binary ELSE DEFAULT_SPARK_BINARY,
     namespace |-> None, principal |-> a.principal, keytab |-> a.keytab]

\* conn_data as _resolve_connection first builds it: the target used when the
\* connection cannot be loaded.
DefaultConnData(a) ==
    [master |-> <<"yarn">>, queue |-> None, deploy_mode |-> None,
     spark_binary |-> IF Truthy(a.spark_binary) THEN a.spark_binary ELSE DEFAULT_SPARK_BINARY,
     namespace |-> None, principal |-> a.principal, keytab |-> a.keytab]

\* SparkSubmitHook._resolve_connection.  ktOk: whether materializing the
\* base64 keytab of the extras succeeds (it raises AirflowException otherwise,
\* which the resolver's own except clause catches).  The result holds the
\* exception raised ("None" when it returns), conn_data and self.spark_binary.
ResolveConnection(a, store, ktOk) ==
    LET conn_data == DefaultConnData(a)
        WithConf(cd) ==
            IF a.conf_namespace # None THEN [cd EXCEPT !.namespace = a.conf_namespace] ELSE cd
    IN  IF ~store.found
        THEN \* get_connection raised AirflowException: logged, defaults kept
             [raised |-> None, conn_data |-> WithConf(conn_data), spark_binary |-> a.spark_binary]
        ELSE
        LET extra == store.extra
            sb == IF ~Truthy(a.spark_binary)
                  THEN ExtraGetDefault(extra, "spark_binary", DEFAULT_SPARK_BINARY)
                  ELSE a.spark_binary
            cd1 == [conn_data EXCEPT
                      !.master = MasterOf(store),
                      !.queue = IF Truthy(a.yarn_queue) THEN a.yarn_queue
                                ELSE ExtraGet(extra, "queue"),
                      !.deploy_mode = IF Truthy(a.deploy_mode) THEN a.deploy_mode
                                      ELSE ExtraGet(extra, "deploy_mode")]
            cd2 == [cd1 EXCEPT
                      !.spark_binary = sb,
                      !.namespace = ExtraGet(extra, "namespace"),
                      !.principal = IF cd1.principal = None THEN ExtraGet(extra, "principal")
                                    ELSE cd1.principal]
            b64 == ExtraGet(extra, "keytab")
        IN  IF BinaryRejected(a.spark_binary, sb)
            THEN [raised |-> "RuntimeError", conn_data |-> cd1, spark_binary |-> sb]
            ELSE IF Truthy(ExtraGet(extra, "spark_home"))
            THEN [raised |-> "RuntimeError", conn_data |-> cd1, spark_binary |-> sb]
            ELSE IF cd2.keytab = None /\ b64 # None
            THEN IF ktOk
                 THEN [raised |-> None, spark_binary |-> sb,
                       conn_data |-> WithConf([cd2 EXCEPT !.keytab = KeytabPath(cd2.principal)])]
                 ELSE [raised |-> None, spark_binary |-> sb, conn_data |-> WithConf(cd2)]
            ELSE [raised |-> None, spark_binary |-> sb, conn_data |-> WithConf(cd2)]

\* self._is_yarn, self._is_kubernetes, self._should_track_driver_status
is_yarn == Contains(connection.master, "yarn")

is_kubernetes == Contains(connection.master, "k8s")

TrackWheneverStandalone == Contains(connection.master, "spark://")

\* _resolve_should_track_driver_status (lines 243-252)
should_track_driver_status ==
    Contains(connection.master, "spark://") /\ connection.deploy_mode = "cluster"

\* self._connection before _resolve_connection has returned.
NoConnection ==
    [master |-> <<>>, queue |-> None, deploy_mode |-> None, spark_binary |-> None,
     namespace |-> None, principal |-> None, keytab |-> None]

\* self._spark_exit_code = None (the log's exit codes are \d+, never negative)
NoExitCode == -1

\* self._driver_status = None
NoStatus == <<"<None>">>

\* What one line of the submission's output holds for each pattern of
\* _process_spark_submit_log: the text re.search would return, or no match.
NoMatch == [app |-> None, pod |-> None, sel |-> None, exit |-> NoExitCode, drv |-> None]

Blank ==
    /\ spark_binary = None
    /\ connection = NoConnection
    /\ env = None
    /\ submit_sp = "None"
    /\ yarn_application_id = None
    /\ kubernetes_driver_pod = None
    /\ kubernetes_application_id = None
    /\ driver_id = None
    /\ driver_status = NoStatus
    /\ spark_exit_code = NoExitCode
    /\ missed_job_status_reports = 0
    /\ pc = "new"
    /\ err = None
    /\ errStatus = NoStatus
    /\ returncode = None
    /\ logLines = 0
    /\ line = NoMatch
    /\ nonzeroExitLogged = FALSE
    /\ okChecks = 0
    /\ failedChecks = 0
    /\ onKillCalls = 0
    /\ killEffects = {}
    /\ killOutcome = "none"
    /\ spark_submit_cmd = <<>>
    /\ popen_args = <<>>
    /\ cmd_log = <<>>

\* The variables the hook's constructor, submit() and on_kill() never touch:
\* the inputs of the functions that have a specification of their own.
maskVars == <<connection_cmd, connection_cmd_masked, display>>

keytabVars == <<files, keytab_call>>

pureVars == <<maskVars, keytabVars, itr>>

NoMaskCall == connection_cmd = <<>> /\ connection_cmd_masked = <<>> /\ display = <<>>

NoKeytabCall == files = <<>> /\ keytab_call = <<>>

NoPureInputs == NoMaskCall /\ NoKeytabCall /\ itr = <<>>

Init ==
    /\ args \in RunArgs
    /\ connStore \in RunConns
    /\ (args.keytab # None) => Contains(MasterOf(connStore), "yarn")
    /\ Blank
    /\ NoPureInputs

InitResolve ==
    args \in ResolveArgs /\ connStore \in ResolveConns /\ Blank /\ NoPureInputs

runVars == <<returncode, env, submit_sp, yarn_application_id, kubernetes_driver_pod,
             kubernetes_application_id, driver_id, driver_status, spark_exit_code,
             missed_job_status_reports, logLines, line, nonzeroExitLogged,
             okChecks, failedChecks>>

killVars == <<onKillCalls, killEffects, killOutcome>>

cmdVars == <<spark_submit_cmd, popen_args, cmd_log>>

\* Status-check commands launched so far.
statusChecks == okChecks + failedChecks

\* SparkSubmitHook.__init__: resolve the connection, then refuse a Kubernetes
\* master when the kubernetes client package is not installed.
Construct ==
    /\ pc = "new"
    /\ \E ktOk \in BOOLEAN, kube_installed \in BOOLEAN :
         LET r == ResolveConnection(args, connStore, ktOk) IN
         /\ spark_binary' = r.spark_binary
         /\ IF r.raised # None
            THEN /\ pc' = "failed" /\ err' = r.raised /\ connection' = NoConnection
            ELSE IF Contains(r.conn_data.master, "k8s") /\ ~kube_installed
            THEN /\ pc' = "failed" /\ err' = "RuntimeError" /\ connection' = NoConnection
            ELSE /\ pc' = "ready" /\ err' = None /\ connection' = r.conn_data
    /\ errStatus' = NoStatus
    /\ UNCHANGED <<args, connStore, pureVars, cmdVars, runVars, killVars>>

LogLines ==
    { NoMatch,
      [NoMatch EXCEPT !.app = "application_1"], [NoMatch EXCEPT !.app = "application_2"],
      [NoMatch EXCEPT !.pod = "spark-pi-a1-driver"], [NoMatch EXCEPT !.pod = "spark-pi-b2-driver"],
      [NoMatch EXCEPT !.sel = "spark-abc"],
      [NoMatch EXCEPT !.exit = 0], [NoMatch EXCEPT !.exit = 1],
      [NoMatch EXCEPT !.drv = "driver-001"], [NoMatch EXCEPT !.drv = "driver-002"] }

(***************************************************************************)
(* The command line and its display form                                   *)
(***************************************************************************)

\* How the multi-character segments of the model's strings are spelled; a
\* segment that is not listed is one character.
Spelling ==
    ("spark-submit" :> <<"s", "p", "a", "r", "k", "-", "s", "u", "b", "m", "i", "t">>) @@
    ("--master" :> <<"-", "-", "m", "a", "s", "t", "e", "r">>) @@
    ("yarn" :> <<"y", "a", "r", "n">>) @@
    ("k8s" :> <<"k", "8", "s">>) @@
    ("://" :> <<":", "/", "/">>) @@
    ("https://kube" :> <<"h", "t", "t", "p", "s", ":", "/", "/", "k", "u", "b", "e">>) @@
    ("spark://" :> <<"s", "p", "a", "r", "k", ":", "/", "/">>) @@
    ("host" :> <<"h", "o", "s", "t">>) @@
    ("6066" :> <<"6", "0", "6", "6">>) @@
    ("-gw" :> <<"-", "g", "w">>) @@
    ("local" :> <<"l", "o", "c", "a", "l">>) @@
    ("--conf" :> <<"-", "-", "c", "o", "n", "f">>) @@
    ("--keytab" :> <<"-", "-", "k", "e", "y", "t", "a", "b">>) @@
    ("/kt_arg" :> <<"/", "k", "t", "_", "a", "r", "g">>) @@
    ("--principal" :> <<"-", "-", "p", "r", "i", "n", "c", "i", "p", "a", "l">>) @@
    ("p_arg" :> <<"p", "_", "a", "r", "g">>) @@
    ("--deploy-mode" :> <<"-", "-", "d", "e", "p", "l", "o", "y", "-", "m", "o", "d", "e">>) @@
    ("cluster" :> <<"c", "l", "u", "s", "t", "e", "r">>) @@
    ("--queue" :> <<"-", "-", "q", "u", "e", "u", "e">>) @@
    ("q_arg" :> <<"q", "_", "a", "r", "g">>) @@
    ("--name" :> <<"-", "-", "n", "a", "m", "e">>) @@
    ("default-name" :> <<"d", "e", "f", "a", "u", "l", "t", "-", "n", "a", "m", "e">>) @@
    ("--verbose" :> <<"-", "-", "v", "e", "r", "b", "o", "s", "e">>) @@
    ("--class" :> <<"-", "-", "c", "l", "a", "s", "s">>) @@
    ("--proxy-user" :> <<"-", "-", "p", "r", "o", "x", "y", "-", "u", "s", "e", "r">>) @@
    ("--properties-file" :> <<"-", "-", "p", "r", "o", "p", "e", "r", "t", "i", "e", "s", "-", "f", "i", "l", "e">>) @@
    ("--files" :> <<"-", "-", "f", "i", "l", "e", "s">>) @@
    ("--py-files" :> <<"-", "-", "p", "y", "-", "f", "i", "l", "e", "s">>) @@
    ("--archives" :> <<"-", "-", "a", "r", "c", "h", "i", "v", "e", "s">>) @@
    ("--driver-class-path" :> <<"-", "-", "d", "r", "i", "v", "e", "r", "-", "c", "l", "a", "s", "s", "-", "p", "a", "t", "h">>) @@
    ("--jars" :> <<"-", "-", "j", "a", "r", "s">>) @@
    ("--packages" :> <<"-", "-", "p", "a", "c", "k", "a", "g", "e", "s">>) @@
    ("--exclude-packages" :> <<"-", "-", "e", "x", "c", "l", "u", "d", "e", "-", "p", "a", "c", "k", "a", "g", "e", "s">>) @@
    ("--repositories" :> <<"-", "-", "r", "e", "p", "o", "s", "i", "t", "o", "r", "i", "e", "s">>) @@
    ("--num-executors" :> <<"-", "-", "n", "u", "m", "-", "e", "x", "e", "c", "u", "t", "o", "r", "s">>) @@
    ("--total-executor-cores" :> <<"-", "-", "t", "o", "t", "a", "l", "-", "e", "x", "e", "c", "u", "t", "o", "r", "-", "c", "o", "r", "e", "s">>) @@
    ("--executor-cores" :> <<"-", "-", "e", "x", "e", "c", "u", "t", "o", "r", "-", "c", "o", "r", "e", "s">>) @@
    ("--executor-memory" :> <<"-", "-", "e", "x", "e", "c", "u", "t", "o", "r", "-", "m", "e", "m", "o", "r", "y">>) @@
    ("--driver-memory" :> <<"-", "-", "d", "r", "i", "v", "e", "r", "-", "m", "e", "m", "o", "r", "y">>) @@
    ("spark.yarn.appMasterEnv." :> <<"s", "p", "a", "r", "k", ".", "y", "a", "r", "n", ".", "a", "p", "p", "M", "a", "s", "t", "e", "r", "E", "n", "v", ".">>) @@
    ("spark.kubernetes.driverEnv." :> <<"s", "p", "a", "r", "k", ".", "k", "u", "b", "e", "r", "n", "e", "t", "e", "s", ".", "d", "r", "i", "v", "e", "r", "E", "n", "v", ".">>) @@
    ("spark.kubernetes.namespace" :> <<"s", "p", "a", "r", "k", ".", "k", "u", "b", "e", "r", "n", "e", "t", "e", "s", ".", "n", "a", "m", "e", "s", "p", "a", "c", "e">>) @@
    ("ns_conn" :> <<"n", "s", "_", "c", "o", "n", "n">>) @@
    ("ns_conf" :> <<"n", "s", "_", "c", "o", "n", "f">>) @@
    ("ENV" :> <<"E", "N", "V">>) @@
    ("app.py" :> <<"a", "p", "p", ".", "p", "y">>) @@
    ("password" :> <<"p", "a", "s", "s", "w", "o", "r", "d">>) @@
    ("Password" :> <<"P", "a", "s", "s", "w", "o", "r", "d">>) @@
    ("secret" :> <<"s", "e", "c", "r", "e", "t">>) @@
    ("Hive" :> <<"H", "i", "v", "e">>) @@
    ("abc123" :> <<"a", "b", "c", "1", "2", "3">>) @@
    ("******" :> <<"*", "*", "*", "*", "*", "*">>) @@
    ("FOO" :> <<"F", "O", "O">>) @@
    ("bar" :> <<"b", "a", "r">>) @@
    ("--token" :> <<"-", "-", "t", "o", "k", "e", "n">>) @@
    ("spark2-submit" :> <<"s", "p", "a", "r", "k", "2", "-", "s", "u", "b", "m", "i", "t">>) @@
    ("spark3-submit" :> <<"s", "p", "a", "r", "k", "3", "-", "s", "u", "b", "m", "i", "t">>) @@
    ("custom-submit" :> <<"c", "u", "s", "t", "o", "m", "-", "s", "u", "b", "m", "i", "t">>) @@
    ("evil-submit" :> <<"e", "v", "i", "l", "-", "s", "u", "b", "m", "i", "t">>) @@
    ("q_extra" :> <<"q", "_", "e", "x", "t", "r", "a">>) @@
    ("client" :> <<"c", "l", "i", "e", "n", "t">>) @@
    ("ns_extra" :> <<"n", "s", "_", "e", "x", "t", "r", "a">>) @@
    ("p_extra" :> <<"p", "_", "e", "x", "t", "r", "a">>) @@
    ("/tmp/airflow_keytab-p_arg" :> <<"/", "t", "m", "p", "/", "a", "i", "r", "f", "l", "o", "w", "_", "k", "e", "y", "t", "a", "b", "-", "p", "_", "a", "r", "g">>) @@
    ("/tmp/airflow_keytab-p_extra" :> <<"/", "t", "m", "p", "/", "a", "i", "r", "f", "l", "o", "w", "_", "k", "e", "y", "t", "a", "b", "-", "p", "_", "e", "x", "t", "r", "a">>) @@
    ("/tmp/airflow_keytab-<uuid4>" :> <<"/", "t", "m", "p", "/", "a", "i", "r", "f", "l", "o", "w", "_", "k", "e", "y", "t", "a", "b", "-", "<", "u", "u", "i", "d", "4", ">">>) @@
    ("Secret" :> <<"S", "e", "c", "r", "e", "t">>) @@
    ("a b" :> <<"a", " ", "b">>) @@
    ("spark.kerberos.renewal.credentials=ccache" :> <<"s", "p", "a", "r", "k", ".", "k", "e", "r", "b", "e", "r", "o", "s", ".", "r", "e", "n", "e", "w", "a", "l", ".", "c", "r", "e", "d", "e", "n", "t", "i", "a", "l", "s", "=", "c", "c", "a", "c", "h", "e">>)

\* The characters of a string given as segments.
RECURSIVE Chars(_)
Chars(text) ==
    IF text = <<>> THEN <<>>
    ELSE (IF Head(text) \in DOMAIN Spelling THEN Spelling[Head(text)] ELSE <<Head(text)>>)
         \o Chars(Tail(text))

\* Python values that _mask_cmd accepts: a list of strings or one string.
List(tokens) == [type |-> "list", val |-> tokens]
Str(chars) == [type |-> "str", val |-> <<chars>>]

\* " ".join(x): the items of a list, or the characters of a string, with one
\* blank between neighbours.
RECURSIVE JoinItems(_)
JoinItems(items) ==
    IF items = <<>> THEN <<>>
    ELSE IF Len(items) = 1 THEN Head(items)
    ELSE Head(items) \o <<" ">> \o JoinItems(Tail(items))

Join(x) ==
    IF x.type = "list" THEN JoinItems([i \in 1..Len(x.val) |-> Chars(x.val[i])])
    ELSE JoinItems([i \in 1..Len(x.val[1]) |-> <<x.val[1][i]>>])

\* \s and the quotes of the pattern of _mask_cmd.
Whitespace == {" ", "\t", "\n"}
Quotes == {"'", "\""}

\* re.I on the letters of the two keywords.
Lower(c) ==
    CASE c = "S" -> "s" [] c = "E" -> "e" [] c = "C" -> "c" [] c = "R" -> "r"
      [] c = "T" -> "t" [] c = "P" -> "p" [] c = "A" -> "a" [] c = "W" -> "w"
      [] c = "O" -> "o" [] c = "D" -> "d" [] OTHER -> c

Keywords == { Spelling["secret"], Spelling["password"] }

\* Length of the keyword (?:secret|password) that matches at position a, or 0.
KeywordLen(text, a) ==
    LET hits == { w \in Keywords :
                    /\ a + Len(w) - 1 <= Len(text)
                    /\ \A k \in 1..Len(w) : Lower(text[a + k - 1]) = w[k] }
    IN  IF hits = {} THEN 0 ELSE Len(CHOOSE w \in hits : TRUE)

Least(S) == CHOOSE x \in S : \A y \in S : x <= y
Greatest(S) == CHOOSE x \in S : \A y \in S : y <= x

\* \S*?(?:=|\s+) from position k: the first '=' or whitespace character at
\* or after k, or 0 when the text ends first.
RECURSIVE SeparatorPos(_, _)
SeparatorPos(text, k) ==
    IF k > Len(text) THEN 0
    ELSE IF text[k] = "=" \/ text[k] \in Whitespace THEN k
    ELSE SeparatorPos(text, k + 1)

\* The positions from pos on where a keyword stands that a separator follows
\* after the rest of its word.
KeywordStarts(text, pos) ==
    { a \in pos..Len(text) :
        /\ KeywordLen(text, a) > 0
        /\ SeparatorPos(text, a + KeywordLen(text, a)) # 0 }

\* \s+ from position p: the position after the run of whitespace.
RECURSIVE SpaceRunEnd(_, _)
SpaceRunEnd(text, p) ==
    IF p <= Len(text) /\ text[p] \in Whitespace THEN SpaceRunEnd(text, p + 1) ELSE p

\* (?:(?!\2\s).)* from position p with an empty group 2: the position after
\* the run of characters that are not whitespace.
RECURSIVE WordEnd(_, _)
WordEnd(text, p) ==
    IF p <= Len(text) /\ text[p] \notin Whitespace THEN WordEnd(text, p + 1) ELSE p

\* (?:(?!\2\s).)* from position p with the quote q in group 2: the run stops
\* before a newline and before a q that whitespace follows.
RECURSIVE QuotedRunEnd(_, _, _)
QuotedRunEnd(text, p, q) ==
    IF /\ p <= Len(text)
       /\ text[p] # "\n"
       /\ ~(text[p] = q /\ p + 1 <= Len(text) /\ text[p + 1] \in Whitespace)
    THEN QuotedRunEnd(text, p + 1, q)
    ELSE p

\* The match that starts at i with its keyword at a and the separator
\* ending before sEnd: group 2 takes a quote when a closing one can be found,
\* and is empty otherwise.
MatchFrom(text, i, sEnd) ==
    LET quoted == sEnd <= Len(text) /\ text[sEnd] \in Quotes
        closers == { c \in (sEnd + 1)..QuotedRunEnd(text, sEnd + 1, text[sEnd]) :
                       c <= Len(text) /\ text[c] = text[sEnd] }
    IN  IF quoted /\ closers # {}
        THEN [start |-> i, g1end |-> sEnd, end |-> Greatest(closers), g3 |-> <<text[sEnd]>>]
        ELSE [start |-> i, g1end |-> sEnd - 1, end |-> WordEnd(text, sEnd) - 1, g3 |-> <<>>]

\* The leftmost match of the pattern at or after pos, as the backtracking
\* matcher finds it: start, the end of group 1, the end of the match and the
\* text of group 3; start = 0 when there is none.  The match uses the first
\* keyword a separator follows; the lazy \S*? before it makes the match start
\* at pos or after the last whitespace before the keyword, and the lazy \S*?
\* after it ends at the first '=' or whitespace, where (?:=|\s+) takes one '='
\* or the whole run of whitespace.
MaskMatch(text, pos) ==
    IF KeywordStarts(text, pos) = {}
    THEN [start |-> 0, g1end |-> 0, end |-> 0, g3 |-> <<>>]
    ELSE CHOOSE m \in
           { MatchFrom(text,
                       1 + Greatest({pos - 1} \cup
                                    { w \in pos..(a - 1) : text[w] \in Whitespace }),
                       IF text[b] = "=" THEN b + 1 ELSE SpaceRunEnd(text, b)) :
               <<a, b>> \in { <<k, SeparatorPos(text, k + KeywordLen(text, k))>> :
                                k \in {Least(KeywordStarts(text, pos))} } } : TRUE

MASK == Spelling["******"]

\* re.sub(pattern, r"\1******\3", text) from position pos on.
RECURSIVE MaskFrom(_, _)
MaskFrom(text, pos) ==
    CHOOSE masked \in
      { IF m.start = 0 THEN SubSeq(text, pos, Len(text))
        ELSE SubSeq(text, pos, m.g1end) \o MASK \o m.g3 \o MaskFrom(text, m.end + 1) :
          m \in {MaskMatch(text, pos)} } : TRUE

\* _mask_cmd (lines 360-382): the display form, a string.
MaskCmd(cmd) == CHOOSE masked \in { MaskFrom(text, 1) : text \in {Join(cmd)} } : TRUE

EnvStrategyIgnoringDeployMode ==
    IF Truthy(args.env_vars) /\ (is_kubernetes \/ is_yarn) THEN "conf"
    ELSE IF Truthy(args.env_vars) THEN "popen"
    ELSE "none"

\* The branch of _build_spark_submit_command that decides how env_vars travel:
\* "conf" (--conf entries), "popen" (process environment), "raise", or "none".
EnvStrategy ==
    IF Truthy(args.env_vars) /\ (is_kubernetes \/ is_yarn) THEN "conf"
    ELSE IF Truthy(args.env_vars) /\ connection.deploy_mode # "cluster" THEN "popen"
    ELSE IF Truthy(args.env_vars) /\ connection.deploy_mode = "cluster" THEN "raise"
    ELSE "none"

EnvAfterBuildForEveryConf ==
    IF EnvStrategy \in {"conf", "popen"} THEN args.env_vars ELSE env

\* self._env after _build_spark_submit_command
EnvAfterBuild ==
    IF EnvStrategy = "conf" /\ is_yarn THEN args.env_vars
    ELSE IF EnvStrategy = "popen" THEN args.env_vars
    ELSE env

\* connection_cmd += [flag, value] when the value is truthy
Option(flag, value) == IF value # <<>> THEN << <<flag>>, value >> ELSE <<>>

\* The same for the values of the resolved connection, which are plain strings.
ConnOption(flag, value) == IF Truthy(value) THEN << <<flag>>, <<value>> >> ELSE <<>>

\* The entries of self._conf in insertion order: spark.kubernetes.namespace
\* when the caller set it, then the entries of args.conf.
ConfEntries ==
    (IF args.conf_namespace # None
     THEN << [key |-> <<"spark.kubernetes.namespace">>, value |-> <<args.conf_namespace>>] >>
     ELSE <<>>) \o args.conf

\* The entries of env_vars; "ENV" stands for {"FOO": "bar"}.
EnvEntries == IF Truthy(args.env_vars) THEN << [key |-> <<"FOO">>, value |-> <<"bar">>] >> ELSE <<>>

RECURSIVE ConfTokens(_, _)
ConfTokens(entries, tmpl) ==
    IF entries = <<>> THEN <<>>
    ELSE << <<"--conf">>, tmpl \o Head(entries).key \o <<"=">> \o Head(entries).value >>
         \o ConfTokens(Tail(entries), tmpl)

\* _build_spark_submit_command (lines 384-476) where it does not raise: the
\* token list it returns.
BuildSparkSubmitCommand(application) ==
    << <<connection.spark_binary>> >>
    \o << <<"--master">>, connection.master >>
    \o ConfTokens(ConfEntries, <<>>)
    \o (IF EnvStrategy = "conf"
        THEN ConfTokens(EnvEntries, IF is_yarn THEN <<"spark.yarn.appMasterEnv.">>
                                    ELSE <<"spark.kubernetes.driverEnv.">>)
        ELSE <<>>)
    \o (IF is_kubernetes /\ Truthy(connection.namespace)
        THEN << <<"--conf">>, <<"spark.kubernetes.namespace", "=", connection.namespace>> >>
        ELSE <<>>)
    \o Option("--properties-file", args.properties_file)
    \o Option("--files", args.files)
    \o Option("--py-files", args.py_files)
    \o Option("--archives", args.archives)
    \o Option("--driver-class-path", args.driver_class_path)
    \o Option("--jars", args.jars)
    \o Option("--packages", args.packages)
    \o Option("--exclude-packages", args.exclude_packages)
    \o Option("--repositories", args.repositories)
    \o Option("--num-executors", args.num_executors)
    \o Option("--total-executor-cores", args.total_executor_cores)
    \o Option("--executor-cores", args.executor_cores)
    \o Option("--executor-memory", args.executor_memory)
    \o Option("--driver-memory", args.driver_memory)
    \o ConnOption("--keytab", connection.keytab)
    \o ConnOption("--principal", connection.principal)
    \o Option("--proxy-user", args.proxy_user)
    \o Option("--name", args.name)
    \o Option("--class", args.java_class)
    \o (IF args.verbose THEN << <<"--verbose">> >> ELSE <<>>)
    \o ConnOption("--queue", connection.queue)
    \o ConnOption("--deploy-mode", connection.deploy_mode)
    \o << application >>
    \o args.application_args

\* The applications submit() is called with.
Applications == { <<"app.py">> }

PopenArgsFromDisplay(cmd) == << MaskCmd(List(cmd)) >>

\* What submit() hands to subprocess.Popen as the command (line 546).
PopenArgs(cmd) == cmd

\* submit(), up to the child process being launched: build the command, which
\* may raise, then subprocess.Popen, which raises OSError when the binary
\* cannot be started.
BuildAndLaunch ==
    /\ \E launched \in BOOLEAN, application \in Applications :
         IF EnvStrategy = "raise"
         THEN /\ pc' = "raised" /\ err' = "EnvVarsNotSupported"
              /\ UNCHANGED <<env, submit_sp, cmdVars>>
         ELSE
         /\ spark_submit_cmd' = BuildSparkSubmitCommand(application)
         /\ cmd_log' = MaskCmd(List(spark_submit_cmd'))
         /\ popen_args' = PopenArgs(spark_submit_cmd')
         /\ env' = EnvAfterBuild
         /\ IF ~launched
            THEN /\ pc' = "raised" /\ err' = "OSError"
                 /\ UNCHANGED submit_sp
            ELSE /\ pc' = "streaming" /\ err' = None
                 /\ submit_sp' = "alive"
    /\ UNCHANGED <<args, connStore, pureVars, spark_binary, connection,
                   yarn_application_id, kubernetes_driver_pod, kubernetes_application_id,
                   driver_id, driver_status, spark_exit_code, missed_job_status_reports,
                   killVars>>

\* submit() on a hook that has not run yet.
SubmitStart ==
    /\ pc = "ready"
    /\ BuildAndLaunch
    /\ UNCHANGED <<errStatus, returncode, logLines, line, nonzeroExitLogged, okChecks,
                   failedChecks>>

\* submit() called again on the same hook after an earlier call returned or
\* raised.  The call's own locals and the output of the new child start afresh;
\* the fields of the hook are whatever the earlier call left, since submit()
\* assigns none of them before the log is read.
SubmitAgain ==
    /\ pc \in {"returned", "raised"}
    /\ BuildAndLaunch
    /\ errStatus' = NoStatus
    /\ returncode' = None
    /\ logLines' = 0
    /\ line' = NoMatch
    /\ nonzeroExitLogged' = FALSE
    /\ okChecks' = 0
    /\ failedChecks' = 0

TracksAnyDriver == should_track_driver_status

\* The last branch of the log loop is taken only while no driver id is
\* stored (line 638).
TracksUnknownDriver == should_track_driver_status /\ ~Truthy(driver_id)

\* One iteration of the loop of _process_spark_submit_log.
ProcessSparkSubmitLogLine(ln) ==
    /\ IF is_yarn /\ connection.deploy_mode = "cluster"
       THEN /\ yarn_application_id' = IF ln.app # None THEN ln.app ELSE yarn_application_id
            /\ UNCHANGED <<kubernetes_driver_pod, kubernetes_application_id,
                           spark_exit_code, driver_id>>
       ELSE IF is_kubernetes
       THEN /\ kubernetes_driver_pod' =
                  IF ln.pod # None THEN ln.pod ELSE kubernetes_driver_pod
            /\ kubernetes_application_id' =
                  IF ln.sel # None THEN ln.sel ELSE kubernetes_application_id
            /\ spark_exit_code' =
                  IF connection.deploy_mode = "cluster"
                  THEN (IF ln.exit # NoExitCode THEN ln.exit ELSE spark_exit_code)
                  ELSE 0
            /\ UNCHANGED <<yarn_application_id, driver_id>>
       ELSE IF TracksUnknownDriver
       THEN /\ driver_id' = IF ln.drv # None THEN ln.drv ELSE driver_id
            /\ UNCHANGED <<yarn_application_id, kubernetes_driver_pod,
                           kubernetes_application_id, spark_exit_code>>
       ELSE UNCHANGED <<yarn_application_id, kubernetes_driver_pod,
                        kubernetes_application_id, spark_exit_code, driver_id>>

\* The child process writes a line and submit() consumes it.
ReadLogLine ==
    /\ pc = "streaming"
    /\ submit_sp = "alive"
    /\ logLines < MaxLogLines
    /\ \E ln \in LogLines :
         /\ ProcessSparkSubmitLogLine(ln)
         /\ line' = ln
         /\ nonzeroExitLogged' = (nonzeroExitLogged \/ ln.exit \notin {NoExitCode, 0})
    /\ logLines' = logLines + 1
    /\ UNCHANGED <<args, connStore, pureVars, cmdVars, spark_binary, connection, env, submit_sp, driver_status,
                   missed_job_status_reports, pc, err, errStatus, returncode, okChecks,
                   failedChecks, killVars>>

\* The statuses that end the poll loop (line 709).
TerminalStatusesWithoutFinished ==
    { <<"UNKNOWN">>, <<"KILLED">>, <<"FAILED">>, <<"ERROR">> }

TerminalStatusesWithoutError ==
    { <<"FINISHED">>, <<"UNKNOWN">>, <<"KILLED">>, <<"FAILED">> }

TerminalStatuses ==
    { <<"FINISHED">>, <<"UNKNOWN">>, <<"KILLED">>, <<"FAILED">>, <<"ERROR">> }

DriverStates ==
    {"SUBMITTED", "RUNNING", "FINISHED", "RELAUNCHING", "UNKNOWN", "KILLED", "FAILED", "ERROR"}

\* Lines of a status response, as segments.
StateLine(s) == <<" ", " ", "\"", "driverState", "\"", " : ", "\"", s, "\"", ",">>

SubmissionLine == <<" ", " ", "\"", "submissionId", "\"", " : ", "\"", "driver-001", "\"", ",">>

CompactStateLine == <<"{", "\"", "driverState", "\"", ":", "\"", "FINISHED", "\"", "}">>

NoiseLine == <<"curl: (7) Failed to connect to host port 6066">>

StatusResponses ==
    { <<>>, <<NoiseLine>>, <<SubmissionLine>>, <<CompactStateLine>> }
    \cup { <<StateLine(s), SubmissionLine>> : s \in DriverStates }

\* str.strip() on segments: whitespace segments at both ends go.
RECURSIVE Strip(_)
Strip(text) ==
    IF text = <<>> THEN text
    ELSE IF Head(text) = " " THEN Strip(Tail(text))
    ELSE IF text[Len(text)] = " " THEN Strip(SubSeq(text, 1, Len(text) - 1))
    ELSE text

\* str.split(sep): the parts between the occurrences of sep.
RECURSIVE Split(_, _)
Split(text, sep) ==
    IF ~Contains(text, sep) THEN <<text>>
    ELSE LET i == CHOOSE k \in 1..Len(text) :
                     text[k] = sep /\ \A j \in 1..(k - 1) : text[j] # sep
         IN  <<SubSeq(text, 1, i - 1)>> \o Split(SubSeq(text, i + 1, Len(text)), sep)

\* str.replace(tok, "")
Remove(text, tok) == SelectSeq(text, LAMBDA t : t # tok)

ParseDriverStateKeepingQuotes(text) == Strip(Remove(Split(text, " : ")[2], ","))

\* text.split(" : ")[1].replace(",", "").replace('"', "").strip()
ParseDriverState(text) == Strip(Remove(Remove(Split(text, " : ")[2], ","), "\""))

\* _process_spark_status_log over the lines left of a response: the driver
\* status afterwards and whether split(" : ")[1] raised IndexError.
RECURSIVE StatusLogFold(_, _, _, _)
StatusLogFold(lines, status, driver_found, valid_response) ==
    IF lines = <<>>
    THEN [status |-> IF valid_response /\ ~driver_found THEN <<"UNKNOWN">> ELSE status,
          raised |-> FALSE]
    ELSE LET stripped == Strip(Head(lines))
             valid == valid_response \/ Contains(stripped, "submissionId")
         IN  IF Contains(stripped, "driverState")
             THEN IF Len(Split(stripped, " : ")) < 2
                  THEN [status |-> status, raised |-> TRUE]
                  ELSE StatusLogFold(Tail(lines), ParseDriverState(stripped), TRUE, valid)
             ELSE StatusLogFold(Tail(lines), status, driver_found, valid)

ProcessSparkStatusLog(resp, status) == StatusLogFold(resp, status, FALSE, FALSE)

\* A driverState line as a server that omits the trailing comma prints it.
LastStateLine(s) == <<" ", " ", "\"", "driverState", "\"", " : ", "\"", s, "\"">>

StatusLines ==
    { StateLine(s) : s \in DriverStates } \cup { LastStateLine("RUNNING") }
    \cup { SubmissionLine, CompactStateLine, NoiseLine }

RECURSIVE SeqsUpTo(_, _)
SeqsUpTo(S, n) ==
    IF n = 0 THEN { <<>> }
    ELSE SeqsUpTo(S, n - 1) \cup
         { Append(q, x) : q \in {r \in SeqsUpTo(S, n - 1) : Len(r) = n - 1}, x \in S }

\* The status-log specification: a tracked hook holding a driver status, and
\* the response of one status process about to be parsed.
InitStatusLog ==
    /\ args = [spark_binary |-> None, yarn_queue |-> None, deploy_mode |-> "cluster",
               principal |-> None, keytab |-> None, env_vars |-> None,
               conf_namespace |-> None] @@ NoOptions
    /\ connStore = [found |-> TRUE, host |-> <<"spark://", "host">>, port |-> "6066",
                    extra |-> NoExtras]
    /\ spark_binary = None
    /\ connection = ResolveConnection(args, connStore, TRUE).conn_data
    /\ env = None
    /\ submit_sp = "exited"
    /\ yarn_application_id = None
    /\ kubernetes_driver_pod = None
    /\ kubernetes_application_id = None
    /\ driver_id = "driver-001"
    /\ driver_status \in { <<"SUBMITTED">>, <<"RUNNING">> }
    /\ spark_exit_code = NoExitCode
    /\ missed_job_status_reports = 0
    /\ pc = "parsing"
    /\ err = None
    /\ errStatus = NoStatus
    /\ returncode = "0"
    /\ logLines = 1
    /\ line = NoMatch
    /\ nonzeroExitLogged = FALSE
    /\ okChecks = 0
    /\ failedChecks = 0
    /\ onKillCalls = 0
    /\ killEffects = {}
    /\ killOutcome = "none"
    /\ spark_submit_cmd = <<>>
    /\ popen_args = <<>>
    /\ cmd_log = <<>>
    /\ NoMaskCall
    /\ NoKeytabCall
    /\ itr \in SeqsUpTo(StatusLines, MaxStatusLines)

\* One call of _process_spark_status_log on the response in hand.
ApplyStatusLog ==
    /\ pc = "parsing"
    /\ LET r == ProcessSparkStatusLog(itr, driver_status)
       IN  /\ driver_status' = r.status
           /\ IF r.raised
              THEN pc' = "raised" /\ err' = "IndexError"
              ELSE pc' = "parsed" /\ err' = None
    /\ UNCHANGED <<args, connStore, spark_binary, connection, env, submit_sp,
                   yarn_application_id, kubernetes_driver_pod, kubernetes_application_id,
                   driver_id, spark_exit_code, missed_job_status_reports, errStatus,
                   returncode, logLines, line, nonzeroExitLogged, okChecks, failedChecks,
                   killVars, cmdVars, maskVars, keytabVars, itr>>

max_missed_job_status_reports == 10

DriverFinishedOrKilled(status) == status \in {<<"FINISHED">>, <<"KILLED">>}

\* submit()'s test of the status the poll loop ended with (line 585).
DriverFinished(status) == status = <<"FINISHED">>

SubmitFailedUntrackedOnly(rc) ==
    (rc # "0" /\ ~should_track_driver_status) \/ (is_kubernetes /\ spark_exit_code # 0)

\* submit()'s test of the child's return code and, under Kubernetes, of the
\* exit code found in the log (line 560).
SubmitFailed(rc) == rc # "0" \/ (is_kubernetes /\ spark_exit_code # 0)

\* submit() from the end of the child's output: wait(), the return-code check,
\* and for a tracked driver the entry into the poll loop.
WaitExit ==
    /\ pc = "streaming"
    /\ \E rc \in {"0", "1", "-9"} :
         /\ (submit_sp = "killed") <=> (rc = "-9")
         /\ returncode' = rc
         /\ IF SubmitFailed(rc)
            THEN /\ pc' = "raised" /\ err' = "CannotExecute"
                 /\ UNCHANGED <<driver_status, missed_job_status_reports>>
            ELSE IF should_track_driver_status
            THEN IF driver_id = None
                 THEN /\ pc' = "raised" /\ err' = "NoDriverId"
                      /\ UNCHANGED <<driver_status, missed_job_status_reports>>
                 ELSE /\ pc' = "tracking" /\ err' = None
                      /\ driver_status' = <<"SUBMITTED">>
                      /\ missed_job_status_reports' = 0
            ELSE /\ pc' = "returned" /\ err' = None
                 /\ UNCHANGED <<driver_status, missed_job_status_reports>>
    /\ submit_sp' = "exited"
    /\ line' = NoMatch
    /\ UNCHANGED <<args, connStore, pureVars, cmdVars, spark_binary, connection, errStatus, env,
                   yarn_application_id, kubernetes_driver_pod, kubernetes_application_id,
                   driver_id, spark_exit_code, logLines, nonzeroExitLogged, okChecks,
                   failedChecks, killVars>>

\* One iteration of the loop of _start_driver_status_tracking, then the loop
\* test, and on leaving the loop submit()'s check of the final status.
\* bounded: whether the model stops admitting zero-exit checks after
\* MaxOkPolls of them; okChecks stops counting there in either case.
StatusCheck(bounded) ==
    /\ pc = "tracking"
    /\ driver_status \notin TerminalStatuses
    /\ \E launched \in BOOLEAN, resp \in StatusResponses, rc \in {"0", "1"} :
         LET r == ProcessSparkStatusLog(resp, driver_status) IN
         IF ~launched
         THEN /\ pc' = "raised" /\ err' = "OSError" /\ errStatus' = NoStatus
              /\ UNCHANGED <<driver_status, missed_job_status_reports, okChecks,
                             failedChecks>>
         ELSE
         /\ (bounded /\ rc = "0") => okChecks < MaxOkPolls
         /\ okChecks' = IF rc = "0" /\ okChecks < MaxOkPolls THEN okChecks + 1 ELSE okChecks
         /\ failedChecks' = IF rc # "0" THEN failedChecks + 1 ELSE failedChecks
         /\ IF r.raised
            THEN /\ pc' = "raised" /\ err' = "IndexError" /\ errStatus' = NoStatus
                 /\ UNCHANGED <<driver_status, missed_job_status_reports>>
            ELSE
            /\ driver_status' = r.status
            /\ IF rc # "0" /\ missed_job_status_reports >= max_missed_job_status_reports
               THEN /\ pc' = "raised" /\ err' = "FailedToPoll" /\ errStatus' = NoStatus
                    /\ UNCHANGED missed_job_status_reports
               ELSE /\ missed_job_status_reports' =
                          IF rc # "0" THEN missed_job_status_reports + 1
                          ELSE missed_job_status_reports
                    /\ IF r.status \notin TerminalStatuses
                       THEN UNCHANGED <<pc, err, errStatus>>
                       ELSE IF ~DriverFinished(r.status)
                       THEN /\ pc' = "raised" /\ err' = "BadlyExited"
                            /\ errStatus' = r.status
                       ELSE /\ pc' = "returned" /\ err' = None /\ errStatus' = NoStatus
    /\ UNCHANGED <<args, connStore, pureVars, cmdVars, spark_binary, connection, returncode, env, submit_sp,
                   yarn_application_id, kubernetes_driver_pod, kubernetes_application_id,
                   driver_id, spark_exit_code, logLines, line, nonzeroExitLogged, killVars>>

PollDriverStatus == StatusCheck(TRUE)

\* The same iteration with any number of zero-exit checks.
PollDriverStatusUnbounded == StatusCheck(FALSE)

\* What on_kill() does from the current state, given how its external steps
\* turn out: dk / yk, the driver-kill and YARN-kill commands ("launch_fail":
\* subprocess.Popen raises OSError, else the command's exit status); cc,
\* whether the kerberos ccache setting can be read (get_mandatory_value raises
\* otherwise); kd, the pod delete call ("ok" or "ApiException", which is
\* caught); polled, whether poll() on a child that was already sent the
\* signal reports it gone.  renew_from_kt(exit_on_fail=False) returns
\* whatever happens.
\* effects: the commands, signals and requests issued; raised: whether an
\* exception leaves on_kill(); signalled: whether the child got the signal.
OnKillResult(dk, cc, yk, kd, polled) ==
    LET wantsDriverKill == should_track_driver_status /\ Truthy(driver_id)
        alive == submit_sp = "alive" \/ (submit_sp = "killed" /\ ~polled)
        wantsYarn == alive /\ Truthy(yarn_application_id)
        renews == connection.keytab # None /\ connection.principal # None
        wantsPod == alive /\ Truthy(kubernetes_driver_pod)
        e1 == IF wantsDriverKill /\ dk # "launch_fail" THEN {"driver_kill"} ELSE {}
        r1 == wantsDriverKill /\ dk = "launch_fail"
        e2 == IF ~r1 /\ alive THEN {"signal"} ELSE {}
        e3 == IF ~r1 /\ wantsYarn /\ renews THEN {"renew"} ELSE {}
        r3 == ~r1 /\ wantsYarn /\ renews /\ ~cc
        r4 == ~r1 /\ ~r3 /\ wantsYarn /\ yk = "launch_fail"
        e4 == IF ~r1 /\ ~r3 /\ wantsYarn /\ yk # "launch_fail" THEN {"yarn_kill"} ELSE {}
        e5 == IF ~r1 /\ ~r3 /\ ~r4 /\ wantsPod THEN {"pod_delete"} ELSE {}
    IN  [effects |-> e1 \cup e2 \cup e3 \cup e4 \cup e5,
         raised |-> r1 \/ r3 \/ r4,
         signalled |-> ~r1 /\ alive]

CommandOutcomes == {"launch_fail", "rc0", "rc1"}

\* on_kill(), called by Airflow at any point of the hook's life.
OnKill ==
    /\ pc \in {"ready", "streaming", "tracking", "returned", "raised"}
    /\ onKillCalls < MaxKills
    /\ \E r \in { OnKillResult(dk, cc, yk, kd, polled) :
                       dk \in CommandOutcomes, cc \in BOOLEAN, yk \in CommandOutcomes,
                       kd \in {"ok", "ApiException"}, polled \in BOOLEAN } :
         /\ killEffects' = r.effects
         /\ killOutcome' = IF r.raised THEN "raised" ELSE "returned"
         /\ submit_sp' = IF r.signalled THEN "killed" ELSE submit_sp
    /\ onKillCalls' = onKillCalls + 1
    /\ UNCHANGED <<args, connStore, pureVars, cmdVars, spark_binary, connection, env, returncode,
                   yarn_application_id, kubernetes_driver_pod, kubernetes_application_id,
                   driver_id, driver_status, spark_exit_code, missed_job_status_reports,
                   pc, err, errStatus, logLines, line, nonzeroExitLogged, okChecks,
                   failedChecks>>

Next ==
    \/ Construct
    \/ SubmitStart
    \/ ReadLogLine
    \/ WaitExit
    \/ PollDriverStatus
    \/ OnKill

Spec == Init /\ [][Next]_vars

\* The states on which the poll loop is meant to finish, as the docstring of
\* _start_driver_status_tracking lists them (lines 676-677).
FinishingStates ==
    { <<"FINISHED">>, <<"ERROR">>, <<"UNKNOWN">>, <<"KILLED">>, <<"FAILED">> }

\* A status check that exits zero and reports a finishing driverState.
TerminalReport ==
    /\ pc = "tracking"
    /\ failedChecks' = failedChecks
    /\ driver_status' \in FinishingStates
    /\ PollDriverStatusUnbounded

\* The tracking specification: a standalone cluster submission whose driver
\* is tracked, never killed, with no bound on the number of status checks.  Every status
\* check terminates and the loop goes on to its next iteration (weak
\* fairness); while the loop keeps running, status checks that exit zero
\* report a finishing state again and again.
InitTracking ==
    /\ Init
    /\ connStore.found /\ Contains(connStore.host, "spark://")
    /\ args.deploy_mode = "cluster"
    /\ args.env_vars = None

NextTracking ==
    \/ Construct
    \/ SubmitStart
    \/ ReadLogLine
    \/ WaitExit
    \/ PollDriverStatusUnbounded

SpecTracking ==
    /\ InitTracking /\ [][NextTracking]_vars
    /\ WF_vars(PollDriverStatusUnbounded)
    /\ (<>[](pc # "tracking") \/ []<><<TerminalReport>>_vars)

\* The resubmission specification: one hook, constructed without env_vars or
\* keytab and never killed, on which submit() is called again after it
\* returned or raised.
InitResubmit ==
    /\ Init
    /\ args.env_vars = None
    /\ args.principal = None

NextResubmit ==
    \/ Construct
    \/ SubmitStart
    \/ ReadLogLine
    \/ WaitExit
    \/ PollDriverStatus
    \/ SubmitAgain

SpecResubmit == InitResubmit /\ [][NextResubmit]_vars

NextResolve == Construct

\* The command specification: hooks whose conf, application arguments, name
\* and verbosity vary, some of them carrying secrets, built and launched.
CommandArgs ==
    { a @@ o :
        a \in [spark_binary : {None}, yarn_queue : {None, "q_arg"},
               deploy_mode : {None, "cluster"}, principal : {None}, keytab : {None},
               env_vars : {None, "ENV"}, conf_namespace : {None}],
        o \in { [NoOptions EXCEPT !.conf = c, !.application_args = aa, !.name = n,
                                  !.verbose = v] :
                  c \in { <<>>, << [key |-> <<"Hive", "Password">>, value |-> <<"abc123">>] >> },
                  aa \in { <<>>, << <<"-", "-", "password">>, <<"abc123">> >>,
                           << <<"secret", "=", "'", "a b", "'">> >> },
                  n \in { <<"default-name">>, <<>> },
                  v \in BOOLEAN } }

InitCommand ==
    /\ args \in CommandArgs
    /\ connStore \in RunConns
    /\ Blank
    /\ NoPureInputs

NextCommand == Construct \/ SubmitStart

SpecCommand == InitCommand /\ [][NextCommand]_vars

\* The masking specification: _mask_cmd called on a token list, then on the
\* display form it returned.
MaskKeys == { <<"password">>, <<"Hive", "Password">>, <<"-", "-", "secret">> }

MaskValues == { <<"abc123">>, <<"'", "a b", "'">>, <<"\"", "abc123", "\"">>, <<"'", "abc123">> }

\* key=value as one token, or key and value as two tokens
MaskPairs ==
    { << k \o <<"=">> \o v >> : k \in MaskKeys, v \in MaskValues }
    \cup { << k, v >> : k \in MaskKeys, v \in MaskValues }

RECURSIVE Flatten(_)
Flatten(seqs) == IF seqs = <<>> THEN <<>> ELSE Head(seqs) \o Flatten(Tail(seqs))

MaskInputs == { List(Flatten(ps)) : ps \in SeqsUpTo(MaskPairs, MaxMaskPairs) }

InitMask ==
    /\ args \in RunArgs /\ args.deploy_mode = None /\ args.principal = None
    /\ args.env_vars = None
    /\ connStore = NotFound
    /\ Blank
    /\ connection_cmd \in MaskInputs
    /\ connection_cmd_masked = <<>>
    /\ display = <<>>
    /\ NoKeytabCall
    /\ itr = <<>>

\* hook._mask_cmd(tokens)
MaskCommand ==
    /\ connection_cmd_masked = <<>> /\ display = <<>>
    /\ connection_cmd.type = "list"
    /\ connection_cmd_masked' = MaskCmd(connection_cmd)
    /\ UNCHANGED <<args, connStore, spark_binary, connection, pc, err, errStatus, runVars,
                   killVars, cmdVars, connection_cmd, display, keytabVars, itr>>

\* hook._mask_cmd(shown), shown being the string the first call returned
MaskDisplay ==
    /\ connection_cmd_masked # <<>> /\ display = <<>>
    /\ connection_cmd.type = "list"
    /\ display' = connection_cmd_masked
    /\ connection_cmd' = Str(connection_cmd_masked)
    /\ connection_cmd_masked' = MaskCmd(Str(connection_cmd_masked))
    /\ UNCHANGED <<args, connStore, spark_binary, connection, pc, err, errStatus, runVars,
                   killVars, cmdVars, keytabVars, itr>>

NextMask == MaskCommand \/ MaskDisplay

SpecMask == InitMask /\ [][NextMask]_vars

(***************************************************************************)
(* Keytab materialization: two hooks built from one connection whose       *)
(* extras carry a base64 keytab, each running                              *)
(* _create_keytab_path_from_base64_keytab in the shared temporary          *)
(* directory.                                                              *)
(***************************************************************************)

Hooks == 1..2

\* uuid.uuid4() of each call
Uuid(h) == IF h = 1 THEN "uuid-1" ELSE "uuid-2"

\* base64.b64decode(base64_keytab): the keytab's bytes, in the two pieces a
\* write can get to disk separately, or an error for a blob with bad padding.
Keytab == <<"keytab-bytes-1", "keytab-bytes-2">>

B64Decodes(base64_keytab) == base64_keytab = "b64"

\* A complete keytab that an earlier, different connection left behind.
StaleKeytab == <<"other-keytab-bytes">>

NoFile == <<"<absent>">>

\* principal of the call: the connection's extra
KeytabPrincipal == ExtraGet(connStore.extra, "principal")

\* temp_file_name = f"airflow_keytab-{principal or _uuid}"
TempFileName(h) ==
    IF Truthy(KeytabPrincipal) THEN <<"airflow_keytab-", KeytabPrincipal>>
    ELSE <<"airflow_keytab-", Uuid(h)>>

\* keytab_path = temp_dir_path / temp_file_name
KeytabPathOf(h) == TempFileName(h)

\* staging_path = temp_dir_path / f".{temp_file_name}.{_uuid}"
StagingPath(h) == <<".">> \o TempFileName(h) \o <<".", Uuid(h)>>

TempDirPaths == { KeytabPathOf(h) : h \in Hooks } \cup { StagingPath(h) : h \in Hooks }

KeytabWrittenInPlace(h) == KeytabPathOf(h)

\* The file the new keytab is written to (line 341).
WriteTarget(h) == StagingPath(h)

NeverSameKeytab(existing_keytab, keytab) == FALSE

\* existing_keytab == keytab (line 335)
SameKeytab(existing_keytab, keytab) == existing_keytab = keytab

\* shutil.move inside one directory: os.rename, which replaces dst in one step
Move(fs, src, dst) == [fs EXCEPT ![dst] = fs[src], ![src] = NoFile]

IdleCall ==
    [pc |-> "start", existing_keytab |-> NoFile, failed |-> FALSE, fsWrites |-> 0,
     afterReturn |-> FALSE, result |-> <<>>]

InitKeytab ==
    /\ args \in RunArgs /\ args.deploy_mode = None /\ args.principal = None
    /\ args.env_vars = None
    /\ connStore \in [found : {TRUE}, host : {<<"yarn">>}, port : {None},
                      extra : { [NoExtras EXCEPT !.keytab = b, !.principal = pr] :
                                  b \in {"b64", "b64-bad-padding"},
                                  pr \in {Absent, "p_extra"} }]
    /\ Blank
    /\ NoMaskCall
    /\ itr = <<>>
    /\ \E before \in {NoFile, Keytab, StaleKeytab} :
          files = [path \in TempDirPaths |->
                      IF Truthy(KeytabPrincipal) /\ path = KeytabPathOf(1) THEN before
                      ELSE NoFile]
    /\ keytab_call = [h \in Hooks |-> IdleCall]

hookVars == <<args, connStore, spark_binary, connection, pc, err, errStatus, runVars,
              killVars, cmdVars, maskVars, itr>>

\* Lines 318-329: the call starts and decodes the blob.
KeytabDecode(h) ==
    /\ keytab_call[h].pc = "start"
    /\ keytab_call' =
          [keytab_call EXCEPT
             ![h].afterReturn = \E o \in Hooks : keytab_call[o].pc = "returned",
             ![h].pc = IF B64Decodes(connStore.extra.keytab) THEN "exists" ELSE "raised"]
    /\ UNCHANGED <<files, hookVars>>

\* Line 332: keytab_path.exists()
KeytabExists(h) ==
    /\ keytab_call[h].pc = "exists"
    /\ keytab_call' =
          [keytab_call EXCEPT
             ![h].pc = IF files[KeytabPathOf(h)] # NoFile THEN "read" ELSE "open"]
    /\ UNCHANGED <<files, hookVars>>

\* Lines 333-337: read the file found and compare.
KeytabRead(h) ==
    /\ keytab_call[h].pc = "read"
    /\ LET existing_keytab == files[KeytabPathOf(h)]
       IN  keytab_call' =
              [keytab_call EXCEPT
                 ![h].existing_keytab = existing_keytab,
                 ![h].pc = IF SameKeytab(existing_keytab, Keytab) THEN "returned" ELSE "open",
                 ![h].result = IF SameKeytab(existing_keytab, Keytab) THEN KeytabPathOf(h)
                               ELSE <<>>]
    /\ UNCHANGED <<files, hookVars>>

\* Line 341: open(staging_path, "wb") creates the empty file, or fails.
KeytabOpen(h) ==
    /\ keytab_call[h].pc = "open"
    /\ \E ok \in BOOLEAN :
          IF ok
          THEN /\ files' = [files EXCEPT ![WriteTarget(h)] = <<>>]
               /\ keytab_call' = [keytab_call EXCEPT ![h].pc = "write",
                                     ![h].fsWrites = keytab_call[h].fsWrites + 1]
          ELSE /\ keytab_call' = [keytab_call EXCEPT ![h].pc = "finally", ![h].failed = TRUE]
               /\ UNCHANGED files
    /\ UNCHANGED hookVars

\* Line 343: f.write(keytab) reaches the disk piece by piece, or fails part
\* way; the with block then closes the file.
KeytabWrite(h) ==
    /\ keytab_call[h].pc = "write"
    /\ \E ok \in BOOLEAN :
          IF ok
          THEN LET written == Len(files[WriteTarget(h)])
               IN  /\ files' = [files EXCEPT
                                  ![WriteTarget(h)] = Append(@, Keytab[written + 1])]
                   /\ keytab_call' =
                         [keytab_call EXCEPT
                            ![h].pc = IF written + 1 = Len(Keytab) THEN "move" ELSE "write",
                            ![h].fsWrites = keytab_call[h].fsWrites + 1]
          ELSE /\ keytab_call' = [keytab_call EXCEPT ![h].pc = "finally", ![h].failed = TRUE]
               /\ UNCHANGED files
    /\ UNCHANGED hookVars

\* Line 346: shutil.move(staging_path, keytab_path), or its failure.
KeytabMove(h) ==
    /\ keytab_call[h].pc = "move"
    /\ \E ok \in BOOLEAN :
          IF ok /\ files[StagingPath(h)] # NoFile
          THEN /\ files' = Move(files, StagingPath(h), KeytabPathOf(h))
               /\ keytab_call' = [keytab_call EXCEPT ![h].pc = "finally",
                                     ![h].result = KeytabPathOf(h),
                                     ![h].fsWrites = keytab_call[h].fsWrites + 1]
          ELSE /\ keytab_call' = [keytab_call EXCEPT ![h].pc = "finally", ![h].failed = TRUE]
               /\ UNCHANGED files
    /\ UNCHANGED hookVars

\* Lines 348-354: the except clause turns a failure into AirflowException,
\* and the finally clause removes the staging file if it is still there.
KeytabFinally(h) ==
    /\ keytab_call[h].pc = "finally"
    /\ files' = [files EXCEPT ![StagingPath(h)] = NoFile]
    /\ keytab_call' =
          [keytab_call EXCEPT
             ![h].pc = IF keytab_call[h].failed THEN "raised" ELSE "returned",
             ![h].fsWrites = IF files[StagingPath(h)] # NoFile THEN @ + 1 ELSE @]
    /\ UNCHANGED hookVars

NextKeytab ==
    \E h \in Hooks :
       \/ KeytabDecode(h) \/ KeytabExists(h) \/ KeytabRead(h) \/ KeytabOpen(h)
       \/ KeytabWrite(h) \/ KeytabMove(h) \/ KeytabFinally(h)

SpecKeytab == InitKeytab /\ [][NextKeytab]_vars

NextStatusLog == ApplyStatusLog

SpecStatusLog == InitStatusLog /\ [][NextStatusLog]_vars

SpecResolve == InitResolve /\ [][NextResolve]_vars

----------------------------------------------------------------------------
(* Properties of submit() and on_kill(), checked under Spec. *)

ExecutionErrors == {"CannotExecute", "NoDriverId", "FailedToPoll", "BadlyExited"}

\* C1: in tracking mode submit() returns normally only with final driver
\* status FINISHED; whenever the poll loop has ended on another terminal
\* status (UNKNOWN, KILLED, FAILED, ERROR) submit() has raised, and the
\* "badly exited" error carries exactly that last status.
SubmitReturnsOnlyWhenFinished ==
    /\ (pc = "returned" /\ should_track_driver_status) => driver_status = <<"FINISHED">>
    /\ (driver_status \in TerminalStatuses \ {<<"FINISHED">>}) =>
          /\ pc = "raised"
          /\ err \in {"BadlyExited", "FailedToPoll"}
          /\ (err = "BadlyExited") => errStatus = driver_status
    /\ (pc = "raised" /\ err = "BadlyExited") =>
          driver_status \in TerminalStatuses \ {<<"FINISHED">>}

BadlyExitedReached ==
    /\ pc = "raised" /\ err = "BadlyExited"
    /\ driver_status = <<"UNKNOWN">> /\ errStatus = <<"UNKNOWN">>
    /\ should_track_driver_status

\* C2: the poll loop raises after exactly 10 failing status checks: when the
\* retry-budget error is raised, 10 status-check commands have exited
\* non-zero, never an 11th.
FailedToPollAfterTenChecks ==
    (pc = "raised" /\ err = "FailedToPoll") => failedChecks = 10

\* C3: submit() raises an execution error only for a non-zero process exit, a
\* log-reported non-zero exit code under Kubernetes, an unknown driver id, an
\* exhausted poll budget or a non-FINISHED terminal status; an untracked
\* submission whose child exits 0 and whose log reports no non-zero exit code
\* returns normally.
ExecutionErrorOnlyForListedCauses ==
    /\ (pc = "raised" /\ err \in ExecutionErrors) =>
          \/ returncode \notin {None, "0"}
          \/ (is_kubernetes /\ spark_exit_code \notin {NoExitCode, 0})
          \/ err \in {"NoDriverId", "FailedToPoll", "BadlyExited"}
    /\ (/\ pc \in {"returned", "raised"}
        /\ ~should_track_driver_status
        /\ returncode = "0"
        /\ spark_exit_code \in {NoExitCode, 0}) => pc = "returned"

\* C4: on_kill() never raises, whatever the Run State and whichever
\* cancellation step fails.
OnKillNeverRaises == killOutcome # "raised"

\* C5: on_kill() called after submit() has returned normally issues nothing:
\* no kill command, no signal, no delete request.
OnKillAfterCompletionIsNoOp ==
    [][(onKillCalls' = onKillCalls + 1 /\ pc = "returned") => killEffects' = {}]_vars

\* C6: an on_kill() that returns has issued a YARN kill whenever a YARN
\* application id is known and a pod delete whenever a driver pod name is
\* known, whether or not the submission process is still alive.
OnKillCancelsKnownRemoteJobs ==
    [][(onKillCalls' = onKillCalls + 1 /\ killOutcome' = "returned") =>
          /\ Truthy(yarn_application_id) => "yarn_kill" \in killEffects'
          /\ Truthy(kubernetes_driver_pod) => "pod_delete" \in killEffects']_vars

\* C10: with env_vars non-empty, a target that is neither YARN nor Kubernetes
\* and deploy mode 'cluster', submit() has raised once called, no child
\* process was launched and the Run State is as it was before the call.
EnvVarsStandaloneClusterRaisesFirst ==
    (/\ pc \notin {"new", "failed", "ready"}
     /\ Truthy(args.env_vars) /\ ~is_yarn /\ ~is_kubernetes
     /\ connection.deploy_mode = "cluster") =>
        /\ pc = "raised" /\ err = "EnvVarsNotSupported"
        /\ submit_sp = "None" /\ env = None /\ returncode = None
        /\ driver_id = None /\ yarn_application_id = None
        /\ kubernetes_driver_pod = None /\ kubernetes_application_id = None
        /\ driver_status = NoStatus /\ spark_exit_code = NoExitCode
        /\ logLines = 0 /\ statusChecks = 0

EnvVarsStandaloneClusterRaised ==
    /\ pc = "raised" /\ err = "EnvVarsNotSupported"
    /\ Truthy(args.env_vars) /\ connection.deploy_mode = "cluster"
    /\ Contains(connection.master, "spark://")

----------------------------------------------------------------------------
(* Properties of the connection resolver, checked under SpecResolve. *)

\* What the precedence rule gives for a field: the explicit argument when one
\* is given, else the extras' value when the key is present, else the default.
Precedence(explicit, fromExtras, default) ==
    IF explicit # None THEN explicit
    ELSE IF fromExtras # Absent THEN fromExtras
    ELSE default

\* C7: every constructed hook holds, for queue, deploy mode, spark binary,
\* principal and keytab, the explicit argument, else the extras' value, else
\* the default -- also when the connection record cannot be loaded.  (The
\* keytab of the extras is held as the path it was materialized to, when it
\* could be.)
ResolvedByPrecedence ==
    (pc = "ready") =>
        LET e == connStore.extra IN
        /\ connection.queue = Precedence(args.yarn_queue, e.queue, None)
        /\ connection.deploy_mode = Precedence(args.deploy_mode, e.deploy_mode, None)
        /\ connection.spark_binary =
              Precedence(args.spark_binary, e.spark_binary, DEFAULT_SPARK_BINARY)
        /\ connection.principal = Precedence(args.principal, e.principal, None)
        /\ \/ connection.keytab =
                 Precedence(args.keytab,
                            IF e.keytab = Absent THEN Absent
                            ELSE KeytabPath(connection.principal), None)
           \/ (args.keytab = None /\ e.keytab # Absent /\ connection.keytab = None)

\* C8, as claimed: every successfully constructed hook has a spark binary of
\* the allowed set, whether the constructor argument or the extras selected it.
ConstructedBinaryIsAllowed ==
    (pc = "ready") => connection.spark_binary \in ALLOWED_SPARK_BINARIES

\* C8, amended: a hook constructed without a spark_binary argument has a
\* binary of the allowed set, unless the extras hold a null 'spark-binary'
\* (then it has none); a binary named by the extras outside the allowed set
\* makes construction fail with RuntimeError; a binary given as constructor
\* argument is used as it is.
ExtrasBinaryIsAllowed ==
    LET e == connStore.extra IN
    /\ (pc = "ready" /\ args.spark_binary = None /\ e.spark_binary # None) =>
          connection.spark_binary \in ALLOWED_SPARK_BINARIES
    /\ (pc = "ready" /\ args.spark_binary = None /\ e.spark_binary = None) =>
          connection.spark_binary = None
    /\ (/\ pc # "new" /\ connStore.found /\ args.spark_binary = None
        /\ e.spark_binary \notin ALLOWED_SPARK_BINARIES \cup {Absent, None}) =>
          (pc = "failed" /\ err = "RuntimeError")
    /\ (pc = "ready" /\ args.spark_binary # None) =>
          connection.spark_binary = args.spark_binary

ExtrasBinaryRefused ==
    /\ pc = "failed" /\ err = "RuntimeError"
    /\ connStore.found /\ args.spark_binary = None
    /\ connStore.extra.spark_binary = "evil-submit"
    /\ connStore.extra.spark_home = Absent

\* C9: when the connection record cannot be loaded, construction does not
\* raise and the target is the default one: master 'yarn', with the default
\* binary unless the constructor names one.
LoadFailureFallsBackToYarn ==
    (~connStore.found /\ pc # "new") =>
        /\ pc = "ready" /\ err = None
        /\ connection.master = <<"yarn">>
        /\ connection.spark_binary =
              (IF Truthy(args.spark_binary) THEN args.spark_binary ELSE DEFAULT_SPARK_BINARY)

LoadFailureFellBack ==
    /\ ~connStore.found /\ pc = "ready"
    /\ args.spark_binary = None
    /\ connection.master = <<"yarn">> /\ connection.spark_binary = DEFAULT_SPARK_BINARY

(***************************************************************************)
(* The launch, the log and the poll loop                                   *)
(***************************************************************************)

\* C11: for every kind of target, once the child process has exited with a
\* non-zero code submit() has raised the "Cannot execute" error and the poll
\* loop was never entered (status still unset, no status check launched),
\* whether or not a driver id was read from the log.
NonZeroExitRaisesBeforePolling ==
    (returncode \notin {None, "0"}) =>
        /\ pc = "raised" /\ err = "CannotExecute"
        /\ driver_status = NoStatus
        /\ statusChecks = 0

NonZeroExitWithDriverIdRaised ==
    /\ returncode = "1" /\ pc = "raised"
    /\ Contains(connection.master, "spark://") /\ connection.deploy_mode = "cluster"
    /\ driver_id = "driver-001"

\* C12: with a process exit of 0, a Kubernetes cluster-mode submission whose
\* log held an 'exit code: N' line with N other than 0 has raised, and a
\* submission to a target that is not Kubernetes has not raised the
\* "Cannot execute" error whatever its log held.
ExitCodeInLogFailsOnlyKubernetes ==
    (returncode = "0") =>
        /\ (is_kubernetes /\ connection.deploy_mode = "cluster" /\ nonzeroExitLogged)
               => (pc = "raised" /\ err = "CannotExecute")
        /\ ~is_kubernetes => err # "CannotExecute"

\* C13: the poll loop is entered only for a master holding 'spark://' in
\* cluster mode; there, after a launch that exited 0, a known driver id means
\* the status was set (SUBMITTED or what a poll made of it), and an unknown
\* one means submit() raised with the status unset and no status check made.
TrackingOnlyForStandaloneCluster ==
    LET standaloneCluster ==
            Contains(connection.master, "spark://") /\ connection.deploy_mode = "cluster"
    IN  /\ (pc = "tracking" \/ driver_status # NoStatus \/ statusChecks > 0)
               => standaloneCluster
        /\ (standaloneCluster /\ returncode = "0" /\ driver_id # None)
               => driver_status # NoStatus
        /\ (standaloneCluster /\ returncode = "0" /\ driver_id = None)
               => /\ pc = "raised" /\ err = "NoDriverId"
                  /\ driver_status = NoStatus
                  /\ statusChecks = 0

NoDriverIdRaised ==
    /\ pc = "raised" /\ err = "NoDriverId" /\ returncode = "0"
    /\ connection.master = <<"spark://", "host", ":", "6066">>
    /\ logLines = MaxLogLines

\* C14: when the first status check exits 0 and answers FINISHED, submit()
\* returns normally with the status FINISHED after that one check, and no
\* check follows a return.
FinishedAtFirstCheckReturns ==
    [][ /\ (/\ pc = "tracking" /\ statusChecks = 0
            /\ okChecks' = 1 /\ driver_status' = <<"FINISHED">>)
           => (pc' = "returned" /\ err' = None /\ okChecks' + failedChecks' = 1)
        /\ (pc = "returned") => (okChecks' = okChecks /\ failedChecks' = failedChecks
                                 /\ driver_status' = driver_status) ]_vars

ReturnedAfterOneCheck ==
    /\ pc = "returned" /\ statusChecks = 1 /\ okChecks = 1
    /\ driver_status = <<"FINISHED">>

\* C17: on a tracked standalone cluster target a stored driver id is never
\* replaced by a later line of the log: the first match wins.
FirstDriverIdWins ==
    [][ (driver_id # None) => (driver_id' = driver_id) ]_vars

SecondDriverIdIgnored ==
    /\ pc = "streaming" /\ should_track_driver_status
    /\ driver_id = "driver-001" /\ line.drv = "driver-002"

\* C18: once a status response has been processed, the driver status is the
\* value of the response's last driverState field without its quotes and
\* comma; a response with a submissionId field and no driverState field
\* leaves the status UNKNOWN, not the status held before.
StatusLogSetsDriverState ==
    (pc = "parsed") =>
        LET stateLines == { i \in 1..Len(itr) :
                              \E s \in DriverStates : itr[i] \in {StateLine(s), LastStateLine(s)} }
            last == CHOOSE i \in stateLines : \A j \in stateLines : j <= i
        IN  IF stateLines # {}
            THEN \E s \in DriverStates :
                    /\ itr[last] \in {StateLine(s), LastStateLine(s)}
                    /\ driver_status = <<s>>
            ELSE (\E i \in 1..Len(itr) : itr[i] = SubmissionLine)
                    => driver_status = <<"UNKNOWN">>

SubmissionWithoutStateParsed ==
    /\ pc = "parsed"
    /\ itr = <<NoiseLine, SubmissionLine>>
    /\ driver_status = <<"UNKNOWN">>

\* C19: whenever submit() has called subprocess.Popen, the token list it
\* passed is the one the command builder returned; the logged display form is
\* the masked rendering of that list, a separate string, and no token of the
\* executed command carries the mask.
ExecutedCommandIsBuilderOutput ==
    (popen_args # <<>>) =>
        /\ popen_args = spark_submit_cmd
        /\ \E application \in Applications :
              spark_submit_cmd = BuildSparkSubmitCommand(application)
        /\ cmd_log = MaskCmd(List(popen_args))
        /\ \A i \in 1..Len(popen_args) :
              LET chars == Chars(popen_args[i])
              IN  \A k \in 1..(Len(chars) - Len(MASK) + 1) :
                      SubSeq(chars, k, k + Len(MASK) - 1) # MASK

SecretMaskedOnlyInLog ==
    /\ pc = "streaming"
    /\ args.application_args = << <<"-", "-", "password">>, <<"abc123">> >>
    /\ cmd_log # Join(List(popen_args))
    /\ popen_args[Len(popen_args)] = <<"abc123">>

\* C20: masking the display form that _mask_cmd returned for a token list
\* gives that display form again.
MaskingDisplayFormChangesNothing ==
    (display # <<>>) => connection_cmd_masked = display

\* C15: whatever the interleaving of the two hooks, a keytab path never holds
\* a partly written file: it is absent or holds a complete keytab (the decoded
\* content, or the complete file found there before); and a call that has
\* returned or raised has left no staging file.
KeytabPathNeverPartial ==
    /\ \A h \in Hooks : files[KeytabPathOf(h)] \in {NoFile, Keytab, StaleKeytab}
    /\ \A h \in Hooks : (files[KeytabPathOf(h)] = StaleKeytab)
                            => \A o \in Hooks : keytab_call[o].result # KeytabPathOf(h)
    /\ \A h \in Hooks : keytab_call[h].pc \in {"returned", "raised"}
                            => files[StagingPath(h)] = NoFile

BothMovedWhileInterleaved ==
    /\ Truthy(KeytabPrincipal)
    /\ \A h \in Hooks : keytab_call[h].pc = "returned" /\ keytab_call[h].fsWrites > 0
    /\ files[KeytabPathOf(1)] = Keytab

\* C16: a call for the same blob and principal that starts after another call
\* has returned makes no file-system write, returns the same path, and leaves
\* the one keytab file and no staging file.
SecondMaterializationWritesNothing ==
    \A h \in Hooks :
       (Truthy(KeytabPrincipal) /\ keytab_call[h].afterReturn) =>
          /\ keytab_call[h].fsWrites = 0
          /\ keytab_call[h].pc # "raised"
          /\ (keytab_call[h].pc = "returned") =>
                /\ \A o \in Hooks : keytab_call[o].pc = "returned"
                                       => keytab_call[o].result = keytab_call[h].result
                /\ files[keytab_call[h].result] = Keytab
                /\ files[StagingPath(h)] = NoFile

SecondCallReturnedAfterFirstWrote ==
    /\ Truthy(KeytabPrincipal)
    /\ keytab_call[1].pc = "returned" /\ keytab_call[1].fsWrites > 0
    /\ keytab_call[2].pc = "returned" /\ keytab_call[2].afterReturn

(***************************************************************************)
(* Run state across log lines and submissions, environment variables and   *)
(* the retry budget                                                        *)
(***************************************************************************)

\* C21: for a Kubernetes target a stored driver pod name is never replaced by
\* a later line of the log: the first pod name wins.
FirstPodNameWins ==
    [][ (is_kubernetes /\ kubernetes_driver_pod # None)
           => (kubernetes_driver_pod' = kubernetes_driver_pod) ]_vars

\* C24: for a Kubernetes target outside cluster deploy mode the exit code
\* recorded once the log has been processed is 0, whatever the log held (an
\* empty log included), so submit() fails with "Cannot execute" exactly when
\* the process exit code is not zero.
KubernetesClientExitCodeIsZero ==
    (is_kubernetes /\ connection.deploy_mode # "cluster" /\ returncode # None)
        => /\ spark_exit_code = 0
           /\ (err = "CannotExecute") <=> (returncode # "0")

\* C25: a status check that exits zero and leaves the driver in a non-terminal
\* state resets the count of missed status reports, so only consecutive failed
\* checks count against the retry budget.
ZeroExitCheckResetsMissedCount ==
    [][ (pc = "tracking" /\ pc' = "tracking" /\ okChecks' = okChecks + 1)
           => (missed_job_status_reports' = 0) ]_vars

\* The built command carries env_vars as --conf entries of the target
\* (lines 398-407).
EnvInConf ==
    \E i \in 1..Len(spark_submit_cmd) :
        /\ spark_submit_cmd[i] # <<>>
        /\ spark_submit_cmd[i][1] \in {"spark.yarn.appMasterEnv.", "spark.kubernetes.driverEnv."}

\* submit() hands self._env to the child process: `if self._env` (lines 541-544).
EnvInProcess == Truthy(env)

\* C23 as stated: a submission with env_vars uses exactly one of the two ways,
\* --conf entries or the environment of the child process, never both.
EnvInjectionExclusive ==
    (Truthy(args.env_vars) /\ spark_submit_cmd # <<>>)
        => /\ EnvInConf \/ EnvInProcess
           /\ ~(EnvInConf /\ EnvInProcess)

\* C23: env_vars become --conf entries exactly for a YARN or Kubernetes target,
\* and enter the environment of the child process exactly for a YARN target or
\* a target that is not Kubernetes: a YARN target gets both.
EnvInjectionByTarget ==
    (Truthy(args.env_vars) /\ spark_submit_cmd # <<>>)
        => /\ EnvInConf <=> (is_yarn \/ is_kubernetes)
           /\ EnvInProcess <=> (is_yarn \/ ~is_kubernetes)

YarnEnvVarsInConfAndProcess ==
    /\ Truthy(args.env_vars) /\ is_yarn /\ pc = "streaming"
    /\ EnvInConf /\ EnvInProcess

\* C22: at the start of every submit() call, before the first line of the log
\* is processed, driver id, driver status, YARN application id, pod name and
\* exit code are all unknown.
RunStateEmptyAtSubmitStart ==
    (pc = "streaming" /\ logLines = 0)
        => /\ driver_id = None
           /\ driver_status = NoStatus
           /\ yarn_application_id = None
           /\ kubernetes_driver_pod = None
           /\ spark_exit_code = NoExitCode

(***************************************************************************)
(* The poll loop under fairness, checked under SpecTracking                *)
(***************************************************************************)

====
